---- MODULE Spec2Model ----
(***************************************************************************)
(* Model of scripts/generate_app_icon.py: the icon rendering pipeline      *)
(* (generate_icon and the drawing routines it calls), the size loop of     *)
(* generate_all_sizes, the manifest of generate_contents_json and main.    *)
(*                                                                         *)
(* Arithmetic.  int(size * c) for a decimal constant c = n/d is modelled   *)
(* as the floor of the exact product, (size * n) \div d; for the constants *)
(* of the script and sizes up to 1100 the double product truncates to the  *)
(* same integer.  Coordinates that the script keeps as floats are logged   *)
(* as the integers they are computed from.  Colours are tuples of          *)
(* integers.                                                               *)
(***************************************************************************)
EXTENDS Integers, Sequences, FiniteSets, TLC

(***************************************************************************)
(* Bounds of the model.                                                    *)
(***************************************************************************)
MaxSize == 100         \* generate_icon is explored for every size 1..MaxSize
MaxRng == 3            \* states the global generator may be in before a call
MaxGradSize == 3       \* canvas sizes of create_radial_gradient: 1..MaxGradSize
MaxRadius == 3         \* radii of create_radial_gradient: 0..MaxRadius

(***************************************************************************)
(* Colour palette, lines 19-35.                                            *)
(***************************************************************************)
BLACK_PRIMARY == <<10, 10, 10>>
BLACK_SECONDARY == <<26, 26, 26>>
DARK_GRAY == <<35, 38, 45>>
MID_GRAY == <<55, 60, 70>>
LIGHT_GRAY == <<85, 90, 100>>
GREEN_BRIGHT == <<0, 255, 65>>
GREEN_NEON == <<57, 255, 20>>
GREEN_GLOW == <<0, 220, 60>>
PURPLE_PRIMARY == <<139, 92, 246>>
PURPLE_SECONDARY == <<168, 85, 247>>
PURPLE_GLOW == <<120, 70, 220>>

(***************************************************************************)
(* Helpers.                                                                *)
(***************************************************************************)
Min(a, b) == IF a <= b THEN a ELSE b
Max(a, b) == IF a >= b THEN a ELSE b

\* int(x * (n/d)) for x >= 0: floor of the exact product.
IntMul(x, n, d) == (x * n) \div d

\* int(n/d) for a non-negative quotient.
IntDiv(n, d) == n \div d

Range(s) == {s[k] : k \in 1..Len(s)}

(***************************************************************************)
(* Strings are sequences of characters, so that the number in a file name  *)
(* and the numbers of a manifest entry are read off the text.              *)
(***************************************************************************)
Digits == <<"0", "1", "2", "3", "4", "5", "6", "7", "8", "9">>
DigitVal(c) == (CHOOSE k \in 1..10 : Digits[k] = c) - 1

RECURSIVE ParseNat(_)
ParseNat(s) ==
    IF s = <<>> THEN 0
    ELSE 10 * ParseNat(SubSeq(s, 1, Len(s) - 1)) + DigitVal(s[Len(s)])

\* Index of the first occurrence of character c in s, 0 if there is none.
IndexOf(s, c) ==
    IF c \in Range(s) THEN CHOOSE k \in 1..Len(s) : s[k] = c /\ \A m \in 1..(k - 1) : s[m] # c
    ELSE 0

AppIconPrefix == <<"A", "p", "p", "I", "c", "o", "n", "-">>
PngSuffix == <<".", "p", "n", "g">>

\* The number N of a name AppIcon-N.png.
NameNumber(f) == ParseNat(SubSeq(f, Len(AppIconPrefix) + 1, Len(f) - Len(PngSuffix)))

\* A decimal with at most one fractional digit, in tenths: "83.5" is 835.
ParseTenths(s) ==
    LET dot == IndexOf(s, ".")
    IN  IF dot = 0 THEN 10 * ParseNat(s)
        ELSE 10 * ParseNat(SubSeq(s, 1, dot - 1)) + ParseNat(SubSeq(s, dot + 1, Len(s)))

\* The point size of a manifest size string "WxH" (its width), in tenths.
PointTenths(s) == ParseTenths(SubSeq(s, 1, IndexOf(s, "x") - 1))

\* The factor of a manifest scale string "2x".
ScaleFactor(s) == ParseNat(SubSeq(s, 1, IndexOf(s, "x") - 1))

(***************************************************************************)
(* generate_all_sizes: the size table, in insertion order (lines 424-435). *)
(***************************************************************************)
F1024 == AppIconPrefix \o <<"1", "0", "2", "4">> \o PngSuffix
F180 == AppIconPrefix \o <<"1", "8", "0">> \o PngSuffix
F120 == AppIconPrefix \o <<"1", "2", "0">> \o PngSuffix
F167 == AppIconPrefix \o <<"1", "6", "7">> \o PngSuffix
F152 == AppIconPrefix \o <<"1", "5", "2">> \o PngSuffix
F76 == AppIconPrefix \o <<"7", "6">> \o PngSuffix
F87 == AppIconPrefix \o <<"8", "7">> \o PngSuffix
F80 == AppIconPrefix \o <<"8", "0">> \o PngSuffix
F60 == AppIconPrefix \o <<"6", "0">> \o PngSuffix
F40 == AppIconPrefix \o <<"4", "0">> \o PngSuffix

sizes ==
    << [filename |-> F1024, size |-> 1024],
       [filename |-> F180, size |-> 180],
       [filename |-> F120, size |-> 120],
       [filename |-> F167, size |-> 167],
       [filename |-> F152, size |-> 152],
       [filename |-> F76, size |-> 76],
       [filename |-> F87, size |-> 87],
       [filename |-> F80, size |-> 80],
       [filename |-> F60, size |-> 60],
       [filename |-> F40, size |-> 40] >>

\* The size the table gives for a file name (sizes[filename]).
SizeOf(f) == (CHOOSE e \in Range(sizes) : e.filename = f).size

\* MasterSize as one of the smaller sizes of the table.
MasterSizeSmall == sizes[2].size

\* The size generate_all_sizes renders the master at (line 440).
MasterSize == 1024

(***************************************************************************)
(* generate_contents_json: the fixed table of entries (lines 458-477).     *)
(***************************************************************************)
S20 == <<"2", "0", "x", "2", "0">>
S29 == <<"2", "9", "x", "2", "9">>
S40 == <<"4", "0", "x", "4", "0">>
S60 == <<"6", "0", "x", "6", "0">>
S76 == <<"7", "6", "x", "7", "6">>
S835 == <<"8", "3", ".", "5", "x", "8", "3", ".", "5">>
S1024 == <<"1", "0", "2", "4", "x", "1", "0", "2", "4">>
X1 == <<"1", "x">>
X2 == <<"2", "x">>
X3 == <<"3", "x">>

specs ==
    << <<F40, S20, X2, "iphone">>,
       <<F60, S20, X3, "iphone">>,
       <<F60, S29, X2, "iphone">>,
       <<F87, S29, X3, "iphone">>,
       <<F80, S40, X2, "iphone">>,
       <<F120, S40, X3, "iphone">>,
       <<F120, S60, X2, "iphone">>,
       <<F180, S60, X3, "iphone">>,
       <<F40, S20, X1, "ipad">>,
       <<F40, S20, X2, "ipad">>,
       <<F60, S29, X1, "ipad">>,
       <<F60, S29, X2, "ipad">>,
       <<F40, S40, X1, "ipad">>,
       <<F80, S40, X2, "ipad">>,
       <<F76, S76, X1, "ipad">>,
       <<F152, S76, X2, "ipad">>,
       <<F167, S835, X2, "ipad">>,
       <<F1024, S1024, X1, "ios-marketing">> >>

\* ManifestImages without the last entry of the table.
ManifestImagesShort ==
    [k \in 1..(Len(specs) - 1) |->
        [filename |-> specs[k][1], idiom |-> specs[k][4],
         scale |-> specs[k][3], size |-> specs[k][2]]]

\* images = [{'filename': f, 'idiom': idiom, 'scale': scale, 'size': s} ...]
ManifestImages ==
    [k \in 1..Len(specs) |->
        [filename |-> specs[k][1], idiom |-> specs[k][4],
         scale |-> specs[k][3], size |-> specs[k][2]]]


(***************************************************************************)
(* The global random number generator (module random).  The generator is   *)
(* a deterministic state machine: seed(n) sets its state from n alone and  *)
(* every draw advances the state and returns a function of it.  The        *)
(* library's generator is stood for by a small congruential one.           *)
(***************************************************************************)
RngMod == 65536
RngSeed == 42

\* The states the generator may be in when generate_icon is called.
RngStates == {RngSeed + k : k \in 0..(MaxRng - 1)}

\* Seed without the reseeding: the generator keeps its state.
SeedKept(s) == s

\* random.seed(42), line 60: the state after seeding, whatever the state s before.
Seed(s) == RngSeed % RngMod

RngNext(s) == (s * 25173 + 13849) % RngMod

RngOut(s) == s \div 16

\* random.randint(a, b) read off state s: an integer in a..b.
RandInt(s, a, b) == a + (RngOut(s) % (b - a + 1))

\* random.choice(['h', 'v']) read off state s.
RandChoice(s) == IF RngOut(s) % 2 = 0 THEN "h" ELSE "v"

\* random.random() > 0.6 read off state s.
RandAbove06(s) == 10 * s > 6 * RngMod

(***************************************************************************)
(* Layout arithmetic of the drawing routines.                              *)
(***************************************************************************)
\* draw_metallic_face, lines 96-112 and 142-144, 158-159.
FaceLayout(sz) ==
    LET cx == sz \div 2
        cy == sz \div 2
        face_width == IntMul(sz, 62, 100)
        face_height == IntMul(sz, 72, 100)
        face_top == cy - face_height \div 2 + IntMul(sz, 6, 100)
        face_bottom == cy + face_height \div 2 - IntMul(sz, 2, 100)
        forehead_y == face_top + IntMul(sz, 14, 100)
        chin_y == face_bottom - IntMul(sz, 6, 100)
        chin_width == IntMul(face_width, 22, 100)
        face_left == cx - face_width \div 2
        face_right == cx + face_width \div 2
    IN  [cx |-> cx, cy |-> cy, face_top |-> face_top, face_bottom |-> face_bottom,
         chin_y |-> chin_y,
         face_points |->
            << <<cx, face_top>>,
               <<face_right - IntMul(sz, 4, 100), forehead_y>>,
               <<face_right, cy - IntMul(sz, 6, 100)>>,
               <<face_right - IntMul(sz, 2, 100), cy + IntMul(sz, 12, 100)>>,
               <<cx + chin_width + IntMul(sz, 4, 100), chin_y>>,
               <<cx, face_bottom>>,
               <<cx - chin_width - IntMul(sz, 4, 100), chin_y>>,
               <<face_left + IntMul(sz, 2, 100), cy + IntMul(sz, 12, 100)>>,
               <<face_left, cy - IntMul(sz, 6, 100)>>,
               <<face_left + IntMul(sz, 4, 100), forehead_y>> >>,
         inner_offset_y |-> IntMul(sz, 8, 1000),
         highlight_y |-> cy - IntMul(sz, 10, 100),
         highlight_width |-> IntMul(sz, 28, 100),
         highlight_height |-> IntMul(sz, 25, 1000),
         line_y_start |-> face_top + IntMul(sz, 16, 100),
         line_y_end |-> chin_y - IntMul(sz, 3, 100)]

\* GemLayout with half the face height taken as 0.35 of the size.
GemLayoutOff(sz) ==
    LET cx == sz \div 2
        cy == sz \div 2
        face_top == cy - IntMul(sz, 35, 100) + IntMul(sz, 6, 100)
        gem_y == face_top + IntMul(sz, 16, 100)
        gem_size == IntMul(sz, 38, 1000)
    IN  [cx |-> cx, cy |-> cy, face_top |-> face_top, gem_y |-> gem_y,
         gem_size |-> gem_size, spec_size |-> IntMul(gem_size, 18, 100)]

\* draw_forehead_gem, lines 177-183 and 214.
GemLayout(sz) ==
    LET cx == sz \div 2
        cy == sz \div 2
        face_top == cy - IntMul(sz, 36, 100) + IntMul(sz, 6, 100)
        gem_y == face_top + IntMul(sz, 16, 100)
        gem_size == IntMul(sz, 38, 1000)
    IN  [cx |-> cx, cy |-> cy, face_top |-> face_top, gem_y |-> gem_y,
         gem_size |-> gem_size, spec_size |-> IntMul(gem_size, 18, 100)]

\* draw_luminous_eyes, lines 225-236 and 275.
EyesLayout(sz) ==
    LET cx == sz \div 2
        cy == sz \div 2
        eye_y == cy - IntMul(sz, 15, 1000)
        eye_spacing == IntMul(sz, 155, 1000)
        eye_width == IntMul(sz, 115, 1000)
        eye_height == IntMul(sz, 38, 1000)
    IN  [cx |-> cx, cy |-> cy, eye_y |-> eye_y,
         eye_width |-> eye_width, eye_height |-> eye_height,
         eye_xs |-> <<cx - eye_spacing, cx + eye_spacing>>,
         socket_w |-> eye_width + IntMul(sz, 15, 1000),
         socket_h |-> eye_height + IntMul(sz, 15, 1000),
         hot_size |-> IntMul(sz, 8, 1000)]

\* add_eye_glow, lines 286-300 and 307.
GlowLayout(sz) ==
    LET cx == sz \div 2
        cy == sz \div 2
        eye_y == cy - IntMul(sz, 15, 1000)
        eye_spacing == IntMul(sz, 155, 1000)
        eye_width == IntMul(sz, 115, 1000)
    IN  [cx |-> cx, cy |-> cy, eye_y |-> eye_y,
         eye_xs |-> <<cx - eye_spacing, cx + eye_spacing>>,
         \* glow_w = eye_width * 1.2 and glow_h = int(size * 0.038) * 1.2, in tenths
         glow_w10 |-> eye_width * 12,
         glow_h10 |-> IntMul(sz, 38, 1000) * 12,
         blur |-> sz \div 25]

\* add_face_details, lines 323-349 and 365.
DetailsLayout(sz) ==
    LET cx == sz \div 2
        cy == sz \div 2
        cheek_offset == IntMul(sz, 20, 100)
        cheek_y == cy + IntMul(sz, 6, 100)
        indicator_size == IntMul(sz, 11, 1000)
    IN  [line_width |-> Max(1, sz \div 350),
         left_cheek |->
            << <<cx - cheek_offset - IntMul(sz, 4, 100), cheek_y - IntMul(sz, 2, 100)>>,
               <<cx - cheek_offset + IntMul(sz, 1, 100), cheek_y + IntMul(sz, 8, 100)>> >>,
         right_cheek |->
            << <<cx + cheek_offset + IntMul(sz, 4, 100), cheek_y - IntMul(sz, 2, 100)>>,
               <<cx + cheek_offset - IntMul(sz, 1, 100), cheek_y + IntMul(sz, 8, 100)>> >>,
         indicator_y |-> cy + IntMul(sz, 10, 100),
         indicator_size |-> indicator_size,
         \* int(size * -0.075) truncates toward zero
         ixs |-> <<cx - IntMul(sz, 75, 1000), cx + IntMul(sz, 75, 1000)>>,
         tiny |-> indicator_size \div 2]

(***************************************************************************)
(* Colours computed in loops.                                              *)
(***************************************************************************)
\* generate_icon, lines 381-387: t = i / vignette_size.
VignetteColor(i, vs) ==
    << IntDiv(BLACK_SECONDARY[1] * i + BLACK_PRIMARY[1] * (vs - i), vs),
       IntDiv(BLACK_SECONDARY[2] * i + BLACK_PRIMARY[2] * (vs - i), vs),
       IntDiv(BLACK_SECONDARY[3] * i + BLACK_PRIMARY[3] * (vs - i), vs),
       IntDiv(255 * i, vs) >>

\* The pairs (i, highlight_height), highlight_height up to 27, at which the
\* exact value of 25 * (1 - (i / hh) * 0.8) is an integer k and the double
\* product of line 148 is just below k, so that int() gives k - 1.
SheenRoundsDown ==
    { <<3, 4>>, <<4, 5>>, <<6, 8>>, <<8, 10>>, <<9, 10>>, <<9, 12>>, <<12, 15>>,
      <<12, 16>>, <<9, 20>>, <<11, 20>>, <<15, 20>>, <<16, 20>>, <<17, 20>>,
      <<18, 20>>, <<18, 24>>, <<20, 25>> }

\* draw_metallic_face, lines 146-148: alpha = int(25 * (1 - (i / hh) * 0.8)).
SheenAlpha(i, hh) ==
    IntDiv(25 * (10 * hh - 8 * i), 10 * hh) - (IF <<i, hh>> \in SheenRoundsDown THEN 1 ELSE 0)

\* draw_forehead_gem, line 188: alpha = int(20 * (i / 5)).
GemGlowAlpha(i) == IntDiv(20 * i, 5)

\* add_face_details, line 354: alpha = int(30 * (i / 5)).
IndicatorAlpha(i) == IntDiv(30 * i, 5)

\* draw_luminous_eyes, lines 262-263.
EyeLayerColor(layer) ==
    LET brightness == Min(255, GREEN_NEON[2] + layer * 30)
    IN  <<Min(255, 100 + layer * 50), brightness, Min(255, 80 + layer * 40)>>


(***************************************************************************)
(* State.                                                                  *)
(***************************************************************************)
VARIABLES
    pc,         \* the statement the script is at
    ret,        \* the caller generate_icon returns to
    size,       \* the size argument of generate_icon / create_radial_gradient
    i,          \* the counter of the loop being run
    j,          \* the counter of the enclosing loop (eye, indicator)
    rng,        \* the state of the global random number generator
    img,        \* the canvas generate_icon works on
    log,        \* the drawing calls of the current call, in order
    log1,       \* the drawing calls of the previous call of generate_icon
    lay,        \* the layout values each drawing routine has computed
    events,     \* history: the pipeline steps begun and ended, in order
    master,     \* the image generate_icon returned
    idx,        \* the number of entries of the size table the loop has taken
    icon,       \* the image about to be saved
    files,      \* the output directory: file name -> image written
    dirMade,    \* os.makedirs has run
    returned,   \* the list generate_all_sizes returned
    manifest,   \* Contents.json
    grad,       \* the other arguments of create_radial_gradient
    rngAt       \* history: the generator's state at each call of generate_icon

vars == <<pc, ret, size, i, j, rng, img, log, log1, lay, events, master, idx,
          icon, files, dirMade, returned, manifest, grad, rngAt>>

renderVars == <<size, i, j, rng, img, log, lay>>
mainVars == <<master, idx, icon, files, dirMade, returned, manifest>>

None == [none |-> TRUE]
EmptyFn == [x \in {} |-> 0]
NoManifest == [state |-> "absent", images |-> <<>>]

Emit(ev) == events' = events \o ev
Draw(calls) == log' = log \o calls

(***************************************************************************)
(* generate_icon(size), lines 372-419.                                     *)
(***************************************************************************)
\* The guard of lines 394 and 413.
Detailed(sz) == sz >= 256

\* Lines 375-379: the canvas and the bound of the vignette loop.
NewCanvas ==
    /\ pc = "generate_icon"
    /\ img' = [w |-> size, h |-> size, mode |-> "RGBA", circuit |-> FALSE,
               enhanced |-> FALSE, resized |-> FALSE]
    /\ log' = << <<"new", <<size, size>>, BLACK_PRIMARY>> >>
    /\ lay' = EmptyFn
    /\ i' = IntMul(size, 55, 100)
    /\ j' = IntMul(size, 55, 100)
    /\ pc' = "vignette"
    /\ Emit(<< <<"call", "generate_icon">>, <<"begin", "background">> >>)
    /\ UNCHANGED <<ret, size, rng, log1, rngAt, grad>>
    /\ UNCHANGED mainVars

\* One iteration of the loop of lines 380-391; j holds vignette_size.
Vignette ==
    /\ pc = "vignette"
    /\ i > 0
    /\ Draw(<< <<"ellipse",
                 <<size \div 2 - i, size \div 2 - i, size \div 2 + i, size \div 2 + i>>,
                 VignetteColor(i, j)>> >>)
    /\ i' = i - 3
    /\ UNCHANGED <<pc, ret, size, j, rng, img, log1, rngAt, lay, events, grad>>
    /\ UNCHANGED mainVars

\* Loop exit and the guard of line 394.
VignetteDone ==
    /\ pc = "vignette"
    /\ i <= 0
    /\ IF Detailed(size)
       THEN pc' = "circuit" /\ UNCHANGED events
       ELSE pc' = "face" /\ Emit(<< <<"end", "background">> >>)
    /\ UNCHANGED <<ret, size, i, j, rng, img, log, log1, rngAt, lay, grad>>
    /\ UNCHANGED mainVars

(***************************************************************************)
(* draw_circuit_pattern(draw, size, density=0.012), lines 57-90.           *)
(***************************************************************************)
\* Lines 60-63.
CircuitSeed ==
    /\ pc = "circuit"
    /\ rng' = Seed(rng)
    /\ i' = IntMul(size, 12, 1000)
    /\ pc' = "traces"
    /\ UNCHANGED <<ret, size, j, img, log, log1, rngAt, lay, events, grad>>
    /\ UNCHANGED mainVars

\* One iteration of the loop of lines 65-82.
Trace ==
    /\ pc = "traces"
    /\ i > 0
    /\ LET s1 == RngNext(rng)
           s2 == RngNext(s1)
           s3 == RngNext(s2)
           s4 == RngNext(s3)
           s5 == RngNext(s4)
           s6 == RngNext(s5)
           x == RandInt(s1, 0, size)
           y == RandInt(s2, 0, size)
           length == RandInt(s3, size \div 25, size \div 8)
           direction == RandChoice(s4)
           trace_color == <<0, 50, 20, 80>>
           line == IF direction = "h"
                   THEN <<"line", <<x, y, Min(x + length, size), y>>, trace_color>>
                   ELSE <<"line", <<x, y, x, Min(y + length, size)>>, trace_color>>
           node_size == RandInt(s6, 2, 3)
       IN  IF RandAbove06(s5)
           THEN /\ Draw(<< line,
                           <<"ellipse",
                             <<x - node_size, y - node_size, x + node_size, y + node_size>>,
                             <<0, 70, 30, 100>>>> >>)
                /\ rng' = s6
           ELSE /\ Draw(<<line>>)
                /\ rng' = s5
    /\ i' = i - 1
    /\ UNCHANGED <<pc, ret, size, j, img, log1, rngAt, lay, events, grad>>
    /\ UNCHANGED mainVars

\* Line 85: the bound of the second loop.
TracesDone ==
    /\ pc = "traces"
    /\ i = 0
    /\ i' = IntMul(size, 3, 1000)
    /\ pc' = "nodes"
    /\ UNCHANGED <<ret, size, j, rng, img, log, log1, rngAt, lay, events, grad>>
    /\ UNCHANGED mainVars

\* One iteration of the loop of lines 85-90.
BrightNode ==
    /\ pc = "nodes"
    /\ i > 0
    /\ LET s1 == RngNext(rng)
           s2 == RngNext(s1)
           s3 == RngNext(s2)
           x == RandInt(s1, IntMul(size, 1, 10), IntMul(size, 9, 10))
           y == RandInt(s2, IntMul(size, 1, 10), IntMul(size, 9, 10))
           node_size == RandInt(s3, 1, 2)
       IN  /\ Draw(<< <<"ellipse",
                        <<x - node_size, y - node_size, x + node_size, y + node_size>>,
                        <<0, 100, 40, 150>>>> >>)
           /\ rng' = s3
    /\ i' = i - 1
    /\ UNCHANGED <<pc, ret, size, j, img, log1, rngAt, lay, events, grad>>
    /\ UNCHANGED mainVars

\* Return to generate_icon, line 397.
CircuitDone ==
    /\ pc = "nodes"
    /\ i = 0
    /\ img' = [img EXCEPT !.circuit = TRUE]
    /\ pc' = "face"
    /\ Emit(<< <<"end", "background">> >>)
    /\ UNCHANGED <<ret, size, i, j, rng, log, log1, rngAt, lay, grad>>
    /\ UNCHANGED mainVars


(***************************************************************************)
(* draw_metallic_face(img, size), lines 93-171.                            *)
(***************************************************************************)
\* Lines 95-139: the layout and the two face polygons.
FaceBase ==
    /\ pc = "face"
    /\ LET f == FaceLayout(size)
       IN  /\ lay' = ("face" :> f) @@ lay
           /\ Draw(<< <<"polygon", f.face_points, DARK_GRAY>>,
                      \* inner_scale 0.88 about (cx, cy), shifted by inner_offset_y
                      <<"polygon", <<f.face_points, 88, f.inner_offset_y>>, MID_GRAY>> >>)
    /\ i' = 0
    /\ pc' = "sheen"
    /\ Emit(<< <<"begin", "face">> >>)
    /\ UNCHANGED <<ret, size, j, rng, img, log1, rngAt, grad>>
    /\ UNCHANGED mainVars

\* One iteration of the loop of lines 145-155.
Sheen ==
    /\ pc = "sheen"
    /\ i < lay["face"].highlight_height
    /\ LET f == lay["face"]
           hh == f.highlight_height
           y == f.highlight_y - hh \div 2 + i
           \* w = highlight_width * (1 - progress * 0.5), as a fraction
           w == <<f.highlight_width * (2 * hh - i), 2 * hh>>
       IN  Draw(<< <<"line", <<f.cx, w, y>>,
                     <<LIGHT_GRAY[1], LIGHT_GRAY[2], LIGHT_GRAY[3], SheenAlpha(i, hh)>>>> >>)
    /\ i' = i + 1
    /\ UNCHANGED <<pc, ret, size, j, rng, img, log1, rngAt, lay, events, grad>>
    /\ UNCHANGED mainVars

\* Lines 157-171: the divider and the three edge highlights.
FaceLines ==
    /\ pc = "sheen"
    /\ i >= lay["face"].highlight_height
    /\ LET f == lay["face"]
           \* face_points[7:10]: the eighth to tenth point
           Edge(k) ==
               LET p == f.face_points[8 + k]
                   n == f.face_points[(((k + 1) % 3) + 7) + 1]
               IN  <<"line", <<p[1] + 2, p[2], n[1] + 2, n[2]>>,
                     <<LIGHT_GRAY[1], LIGHT_GRAY[2], LIGHT_GRAY[3], 60>>>>
       IN  Draw(<< <<"line", <<f.cx, f.line_y_start, f.cx, f.line_y_end,
                               Max(2, size \div 180)>>, <<70, 75, 85>>>>,
                   Edge(0), Edge(1), Edge(2) >>)
    /\ pc' = "gem"
    /\ Emit(<< <<"end", "face">> >>)
    /\ UNCHANGED <<ret, size, i, j, rng, img, log1, rngAt, lay, grad>>
    /\ UNCHANGED mainVars

(***************************************************************************)
(* draw_forehead_gem(img, size), lines 174-219.                            *)
(***************************************************************************)
\* Lines 176-183.
GemBase ==
    /\ pc = "gem"
    /\ lay' = ("gem" :> GemLayout(size)) @@ lay
    /\ i' = 5
    /\ pc' = "gem_glow"
    /\ Emit(<< <<"begin", "gem">> >>)
    /\ UNCHANGED <<ret, size, j, rng, img, log, log1, rngAt, grad>>
    /\ UNCHANGED mainVars

\* One iteration of the loop of lines 186-192.
GemGlow ==
    /\ pc = "gem_glow"
    /\ i > 0
    /\ LET g == lay["gem"]
           \* radius = gem_size * 1.2 * (i / 5), as a fraction
           radius == <<g.gem_size * 12 * i, 50>>
       IN  Draw(<< <<"ellipse", <<g.cx, g.gem_y, radius>>,
                     <<PURPLE_GLOW[1], PURPLE_GLOW[2], PURPLE_GLOW[3], GemGlowAlpha(i)>>>> >>)
    /\ i' = i - 1
    /\ UNCHANGED <<pc, ret, size, j, rng, img, log1, rngAt, lay, events, grad>>
    /\ UNCHANGED mainVars

\* Lines 194-219: the diamond, its highlight and the specular dot.
GemBody ==
    /\ pc = "gem_glow"
    /\ i = 0
    /\ LET g == lay["gem"]
       IN  Draw(<< <<"polygon",
                     << <<g.cx, g.gem_y - g.gem_size>>, <<g.cx + g.gem_size, g.gem_y>>,
                        <<g.cx, g.gem_y + g.gem_size>>, <<g.cx - g.gem_size, g.gem_y>> >>,
                     PURPLE_PRIMARY>>,
                   \* highlight_size = gem_size * 0.55
                   <<"polygon", <<g.cx, g.gem_y, g.gem_size, 55>>, PURPLE_SECONDARY>>,
                   <<"ellipse", <<g.cx, g.gem_y, g.gem_size, g.spec_size>>,
                     <<220, 200, 255, 180>>>> >>)
    /\ pc' = "eyes"
    /\ Emit(<< <<"end", "gem">> >>)
    /\ UNCHANGED <<ret, size, i, j, rng, img, log1, rngAt, lay, grad>>
    /\ UNCHANGED mainVars

(***************************************************************************)
(* draw_luminous_eyes(img, size), lines 222-281.                           *)
(***************************************************************************)
\* Lines 224-231.
EyesBase ==
    /\ pc = "eyes"
    /\ lay' = ("eyes" :> EyesLayout(size)) @@ lay
    /\ j' = 1
    /\ pc' = "eye"
    /\ Emit(<< <<"begin", "eyes">> >>)
    /\ UNCHANGED <<ret, size, i, rng, img, log, log1, rngAt, grad>>
    /\ UNCHANGED mainVars

\* Lines 233-251: the socket and the almond of eye j.
EyeShape ==
    /\ pc = "eye"
    /\ j <= 2
    /\ LET e == lay["eyes"]
           eye_x == e.eye_xs[j]
       IN  Draw(<< <<"ellipse",
                     <<eye_x - e.socket_w, e.eye_y - e.socket_h,
                       eye_x + e.socket_w, e.eye_y + e.socket_h>>, <<8, 8, 10>>>>,
                   <<"polygon", <<eye_x, e.eye_y, e.eye_width, e.eye_height, 100>>,
                     GREEN_BRIGHT>> >>)
    /\ i' = 0
    /\ pc' = "eye_layer"
    /\ UNCHANGED <<ret, size, j, rng, img, log1, rngAt, lay, events, grad>>
    /\ UNCHANGED mainVars

\* One iteration of the loop of lines 254-264.
EyeLayer ==
    /\ pc = "eye_layer"
    /\ i < 3
    /\ LET e == lay["eyes"]
           eye_x == e.eye_xs[j]
           \* scale = 0.85 - layer * 0.15, in hundredths
           scale == 85 - i * 15
       IN  Draw(<< <<"polygon", <<eye_x, e.eye_y, e.eye_width, e.eye_height, scale>>,
                     EyeLayerColor(i)>> >>)
    /\ i' = i + 1
    /\ UNCHANGED <<pc, ret, size, j, rng, img, log1, rngAt, lay, events, grad>>
    /\ UNCHANGED mainVars

\* Lines 266-281: the core and the hot spot of eye j.
EyeCore ==
    /\ pc = "eye_layer"
    /\ i = 3
    /\ LET e == lay["eyes"]
           eye_x == e.eye_xs[j]
       IN  Draw(<< <<"ellipse", <<eye_x, e.eye_y, e.eye_width, e.eye_height>>,
                     <<220, 255, 220>>>>,
                   <<"ellipse", <<eye_x, e.eye_y, e.eye_width, e.eye_height, e.hot_size>>,
                     <<255, 255, 255, 200>>>> >>)
    /\ j' = j + 1
    /\ pc' = "eye"
    /\ UNCHANGED <<ret, size, i, rng, img, log1, rngAt, lay, events, grad>>
    /\ UNCHANGED mainVars

EyesDone ==
    /\ pc = "eye"
    /\ j > 2
    /\ pc' = "details"
    /\ Emit(<< <<"end", "eyes">> >>)
    /\ UNCHANGED <<ret, size, i, j, rng, img, log, log1, rngAt, lay, grad>>
    /\ UNCHANGED mainVars

(***************************************************************************)
(* add_face_details(img, size), lines 320-369.                             *)
(***************************************************************************)
\* Lines 322-346: the two cheek lines.
DetailsBase ==
    /\ pc = "details"
    /\ LET d == DetailsLayout(size)
       IN  /\ lay' = ("details" :> d) @@ lay
           /\ Draw(<< <<"line", <<d.left_cheek, d.line_width>>, <<45, 48, 55, 180>>>>,
                      <<"line", <<d.right_cheek, d.line_width>>, <<45, 48, 55, 180>>>> >>)
    /\ j' = 1
    /\ pc' = "indicator"
    /\ Emit(<< <<"begin", "details">> >>)
    /\ UNCHANGED <<ret, size, i, rng, img, log1, rngAt, grad>>
    /\ UNCHANGED mainVars

\* Lines 348-352: indicator j, the bound of its glow loop.
IndicatorBase ==
    /\ pc = "indicator"
    /\ j <= 2
    /\ i' = 5
    /\ pc' = "indicator_glow"
    /\ UNCHANGED <<ret, size, j, rng, img, log, log1, rngAt, lay, events, grad>>
    /\ UNCHANGED mainVars

\* One iteration of the loop of lines 352-356.
IndicatorGlow ==
    /\ pc = "indicator_glow"
    /\ i > 0
    /\ LET d == lay["details"]
           ix == d.ixs[j]
           r == d.indicator_size + i
       IN  Draw(<< <<"ellipse", <<ix - r, d.indicator_y - r, ix + r, d.indicator_y + r>>,
                     <<0, 200, 100, IndicatorAlpha(i)>>>> >>)
    /\ i' = i - 1
    /\ UNCHANGED <<pc, ret, size, j, rng, img, log1, rngAt, lay, events, grad>>
    /\ UNCHANGED mainVars

\* Lines 358-367: the core and the centre of indicator j.
IndicatorCore ==
    /\ pc = "indicator_glow"
    /\ i = 0
    /\ LET d == lay["details"]
           ix == d.ixs[j]
           s == d.indicator_size
           t == d.tiny
       IN  Draw(<< <<"ellipse", <<ix - s, d.indicator_y - s, ix + s, d.indicator_y + s>>,
                     GREEN_GLOW>>,
                   <<"ellipse", <<ix - t, d.indicator_y - t, ix + t, d.indicator_y + t>>,
                     <<200, 255, 200>>>> >>)
    /\ j' = j + 1
    /\ pc' = "indicator"
    /\ UNCHANGED <<ret, size, i, rng, img, log1, rngAt, lay, events, grad>>
    /\ UNCHANGED mainVars

DetailsDone ==
    /\ pc = "indicator"
    /\ j > 2
    /\ pc' = "glow"
    /\ Emit(<< <<"end", "details">> >>)
    /\ UNCHANGED <<ret, size, i, j, rng, img, log, log1, rngAt, lay, grad>>
    /\ UNCHANGED mainVars

(***************************************************************************)
(* add_eye_glow(img, size), lines 284-317.                                 *)
(***************************************************************************)
EyeGlow ==
    /\ pc = "glow"
    /\ LET g == GlowLayout(size)
           Ell(k) == <<"glow_ellipse", <<g.eye_xs[k], g.eye_y, g.glow_w10, g.glow_h10>>,
                       <<0, 255, 80, 180>>>>
       IN  /\ lay' = ("glow" :> g) @@ lay
           /\ Draw(<< Ell(1), Ell(2),
                      <<"blur", <<g.blur>>, <<0, 0, 0, 0>>>>,
                      <<"alpha_composite", <<>>, <<0, 0, 0, 0>>>> >>)
    /\ pc' = "enhance"
    /\ Emit(<< <<"begin", "glow">>, <<"end", "glow">> >>)
    /\ UNCHANGED <<ret, size, i, j, rng, img, log1, rngAt, grad>>
    /\ UNCHANGED mainVars

(***************************************************************************)
(* generate_icon, lines 412-419.                                           *)
(***************************************************************************)
Enhance ==
    /\ pc = "enhance"
    /\ IF Detailed(size)
       THEN /\ img' = [img EXCEPT !.enhanced = TRUE]
            /\ Draw(<< <<"contrast", <<108>>, <<0, 0, 0, 0>>>>,
                       <<"sharpness", <<115>>, <<0, 0, 0, 0>>>> >>)
            /\ Emit(<< <<"begin", "enhance">>, <<"end", "enhance">> >>)
       ELSE UNCHANGED <<img, log, events>>
    /\ pc' = "convert"
    /\ UNCHANGED <<ret, size, i, j, rng, log1, rngAt, lay, grad>>
    /\ UNCHANGED mainVars

\* Convert sending generate_all_sizes back to render the master again.
ConvertRerender ==
    /\ pc = "convert"
    /\ img' = [img EXCEPT !.mode = "RGB"]
    /\ master' = img'
    /\ pc' = IF ret = "generate_all_sizes"
             THEN (IF master = None THEN "render_master" ELSE "loop")
             ELSE "returned"
    /\ Emit(<< <<"return", "generate_icon">> >>)
    /\ UNCHANGED <<ret, size, i, j, rng, log, log1, rngAt, lay, grad>>
    /\ UNCHANGED <<idx, icon, files, dirMade, returned, manifest>>

\* Line 419 and the return to the caller.
Convert ==
    /\ pc = "convert"
    /\ img' = [img EXCEPT !.mode = "RGB"]
    /\ master' = img'
    /\ pc' = IF ret = "generate_all_sizes" THEN "loop" ELSE "returned"
    /\ Emit(<< <<"return", "generate_icon">> >>)
    /\ UNCHANGED <<ret, size, i, j, rng, log, log1, rngAt, lay, grad>>
    /\ UNCHANGED <<idx, icon, files, dirMade, returned, manifest>>


(***************************************************************************)
(* generate_all_sizes(output_dir), lines 422-453, and main, lines 494-506. *)
(***************************************************************************)
\* main, lines 495-503: the output directory, then the call of generate_all_sizes.
MainStart ==
    /\ pc = "main"
    /\ pc' = "makedirs"
    /\ Emit(<< <<"call", "generate_all_sizes">> >>)
    /\ UNCHANGED <<ret, log1, rngAt, grad>>
    /\ UNCHANGED renderVars
    /\ UNCHANGED mainVars

\* Line 437.
MakeDirs ==
    /\ pc = "makedirs"
    /\ dirMade' = TRUE
    /\ pc' = "render_master"
    /\ UNCHANGED <<ret, log1, rngAt, events, grad>>
    /\ UNCHANGED renderVars
    /\ UNCHANGED <<master, idx, icon, files, returned, manifest>>

\* Line 440: master = generate_icon(1024).
RenderMaster ==
    /\ pc = "render_master"
    /\ size' = MasterSize
    /\ ret' = "generate_all_sizes"
    /\ pc' = "generate_icon"
    /\ UNCHANGED <<i, j, rng, img, log, log1, rngAt, lay, events, grad>>
    /\ UNCHANGED mainVars

\* ResizeTo changing the width only.
ResizeToWidth(image, sz) == [image EXCEPT !.w = sz, !.resized = TRUE]

\* master.resize((size, size), Image.Resampling.LANCZOS), line 447.
ResizeTo(image, sz) == [image EXCEPT !.w = sz, !.h = sz, !.resized = TRUE]

\* Lines 442-447: the next entry of the table and its icon.
Resize ==
    /\ pc = "loop"
    /\ idx < Len(sizes)
    /\ LET e == sizes[idx + 1]
       IN  IF e.size = 1024
           THEN icon' = master /\ UNCHANGED events
           ELSE icon' = ResizeTo(master, e.size) /\ Emit(<< <<"resize", e.filename>> >>)
    /\ idx' = idx + 1
    /\ pc' = "save"
    /\ UNCHANGED <<ret, log1, rngAt, grad>>
    /\ UNCHANGED renderVars
    /\ UNCHANGED <<master, files, dirMade, returned, manifest>>

\* Lines 449-450.
Save ==
    /\ pc = "save"
    /\ files' = (sizes[idx].filename :> icon) @@ files
    /\ pc' = "loop"
    /\ Emit(<< <<"save", sizes[idx].filename>> >>)
    /\ UNCHANGED <<ret, log1, rngAt, grad>>
    /\ UNCHANGED renderVars
    /\ UNCHANGED <<master, idx, icon, dirMade, returned, manifest>>

\* LoopDone leaving the loop one entry early.
LoopDoneEarly ==
    /\ pc = "loop"
    /\ idx >= Len(sizes) - 1
    /\ returned' = [k \in 1..Len(sizes) |-> sizes[k].filename]
    /\ pc' = "contents_json"
    /\ Emit(<< <<"return", "generate_all_sizes">> >>)
    /\ UNCHANGED <<ret, log1, rngAt, grad>>
    /\ UNCHANGED renderVars
    /\ UNCHANGED <<master, idx, icon, files, dirMade, manifest>>

\* Lines 452-453: return list(sizes.keys()).
LoopDone ==
    /\ pc = "loop"
    /\ idx = Len(sizes)
    /\ returned' = [k \in 1..Len(sizes) |-> sizes[k].filename]
    /\ pc' = "contents_json"
    /\ Emit(<< <<"return", "generate_all_sizes">> >>)
    /\ UNCHANGED <<ret, log1, rngAt, grad>>
    /\ UNCHANGED renderVars
    /\ UNCHANGED <<master, idx, icon, files, dirMade, manifest>>

\* ContentsJson run also after an exception, as a finally clause would.
ContentsJsonFinally ==
    /\ pc \in {"contents_json", "raised"}
    /\ manifest' = [state |-> "written", images |-> ManifestImages]
    /\ pc' = "done"
    /\ Emit(<< <<"manifest", "Contents.json">> >>)
    /\ UNCHANGED <<ret, log1, rngAt, grad>>
    /\ UNCHANGED renderVars
    /\ UNCHANGED <<master, idx, icon, files, dirMade, returned>>

\* generate_contents_json(filenames, output_dir), lines 456-491, and the
\* end of main.  The filenames argument (returned) is not read.
ContentsJson ==
    /\ pc = "contents_json"
    /\ manifest' = [state |-> "written", images |-> ManifestImages]
    /\ pc' = "done"
    /\ Emit(<< <<"manifest", "Contents.json">> >>)
    /\ UNCHANGED <<ret, log1, rngAt, grad>>
    /\ UNCHANGED renderVars
    /\ UNCHANGED <<master, idx, icon, files, dirMade, returned>>

(***************************************************************************)
(* A library exception.  Nothing in the script catches one: the invocation *)
(* ends where it is raised.  A save that raises may leave the file it was  *)
(* writing incomplete; a manifest write that raises may leave an           *)
(* incomplete Contents.json.                                               *)
(***************************************************************************)
Running == pc \notin {"main", "done", "raised", "returned"}

Partial == [partial |-> TRUE]

Raise ==
    /\ Running
    /\ pc' = "raised"
    /\ Emit(<< <<"raise", pc>> >>)
    /\ IF pc = "save"
       THEN files' \in {files, (sizes[idx].filename :> Partial) @@ files}
       ELSE UNCHANGED files
    /\ IF pc = "contents_json"
       THEN manifest' \in {manifest, [state |-> "partial", images |-> <<>>]}
       ELSE UNCHANGED manifest
    /\ UNCHANGED <<ret, log1, rngAt, grad>>
    /\ UNCHANGED renderVars
    /\ UNCHANGED <<master, idx, icon, dirMade, returned>>

(***************************************************************************)
(* A second call of generate_icon with the same size, after other code has *)
(* left the global generator in any state.                                 *)
(***************************************************************************)
CallAgain ==
    /\ pc = "returned"
    /\ ret = "caller"
    /\ log1 = <<>>
    /\ log1' = log
    /\ rng' \in RngStates
    /\ rngAt' = Append(rngAt, rng')
    /\ pc' = "generate_icon"
    /\ UNCHANGED <<ret, size, i, j, img, log, lay, events, grad>>
    /\ UNCHANGED mainVars

(***************************************************************************)
(* create_radial_gradient(size, center, inner_color, outer_color, radius), *)
(* lines 38-54.  i is y, j is x.                                           *)
(***************************************************************************)
RECURSIVE ISqrtIn(_, _, _)
\* The largest k in lo..hi with k * k <= n, given lo * lo <= n.
ISqrtIn(n, lo, hi) ==
    IF lo >= hi THEN lo
    ELSE LET mid == (lo + hi + 1) \div 2
         IN  IF mid * mid <= n THEN ISqrtIn(n, mid, hi) ELSE ISqrtIn(n, lo, mid - 1)

\* floor(sqrt(n)) and ceil(sqrt(n)), for n below 2^31.
FloorSqrt(n) == ISqrtIn(n, 0, Min(n, 46340))
CeilSqrt(n) == LET f == FloorSqrt(n) IN IF f * f = n THEN f ELSE f + 1

\* InRadius without the test: every pixel is interpolated.
InRadiusAlways(d2, radius) == TRUE

\* The guard of line 46, dist <= radius, with dist = sqrt(d2).
InRadius(d2, radius) == radius >= 0 /\ d2 <= radius * radius

\* int(a * (1 - t) + b * t) for t = sqrt(d2) / radius, lines 47-51, as the
\* truncation of the exact value.  For the colours of GradColors and radii
\* up to 4 this is the value the double arithmetic of the script gives.
Lerp(a, b, d2, radius) ==
    IF b >= a
    THEN a + FloorSqrt((b - a) * (b - a) * d2) \div radius
    ELSE LET v == a * radius - CeilSqrt((a - b) * (a - b) * d2)
         IN  IF v >= 0 THEN v \div radius ELSE -((-v) \div radius)

\* Colours the gradient is explored with.
GradColors ==
    { <<0, 0, 0, 0>>, <<255, 255, 255, 255>>, <<0, 255, 80, 180>>,
      <<PURPLE_GLOW[1], PURPLE_GLOW[2], PURPLE_GLOW[3], 20>>,
      BLACK_PRIMARY, GREEN_NEON }

GradPixel ==
    /\ pc = "gradient"
    /\ i < size
    /\ LET cx == grad.center[1]
           cy == grad.center[2]
           d2 == (j - cx) * (j - cx) + (i - cy) * (i - cy)
           inner == grad.inner
           outer == grad.outer
           r == grad.radius
       IN  IF ~InRadius(d2, r)
           THEN UNCHANGED <<log, pc, events>>
           ELSE IF r = 0 \/ (Len(inner) > 3 /\ Len(outer) <= 3)
           \* ZeroDivisionError at line 47, IndexError at line 51
           THEN pc' = "raised" /\ Emit(<< <<"raise", pc>> >>) /\ UNCHANGED log
           ELSE /\ Draw(<< <<"putpixel", <<j, i>>,
                             << Lerp(inner[1], outer[1], d2, r),
                                Lerp(inner[2], outer[2], d2, r),
                                Lerp(inner[3], outer[3], d2, r),
                                IF Len(inner) > 3 THEN Lerp(inner[4], outer[4], d2, r)
                                ELSE 255 >>>> >>)
                /\ UNCHANGED <<pc, events>>
    /\ IF j + 1 < size
       THEN j' = j + 1 /\ i' = i
       ELSE j' = 0 /\ i' = i + 1
    /\ UNCHANGED <<ret, size, rng, img, log1, rngAt, lay, grad>>
    /\ UNCHANGED mainVars

GradDone ==
    /\ pc = "gradient"
    /\ i >= size
    /\ pc' = "returned"
    /\ UNCHANGED <<ret, log1, rngAt, events, grad>>
    /\ UNCHANGED renderVars
    /\ UNCHANGED mainVars

(***************************************************************************)
(* Specifications.                                                         *)
(***************************************************************************)
Idle ==
    /\ i = 0 /\ j = 0
    /\ img = None /\ log = <<>> /\ log1 = <<>> /\ lay = EmptyFn /\ events = <<>>
    /\ master = None /\ idx = 0 /\ icon = None /\ files = EmptyFn
    /\ dirMade = FALSE /\ returned = <<>> /\ manifest = NoManifest

\* One invocation of the script.
Init ==
    /\ pc = "main" /\ ret = "none" /\ size = 0 /\ grad = None
    /\ rng \in RngStates
    /\ rngAt = <<rng>>
    /\ Idle

RenderStep ==
    \/ NewCanvas \/ Vignette \/ VignetteDone
    \/ CircuitSeed \/ Trace \/ TracesDone \/ BrightNode \/ CircuitDone
    \/ FaceBase \/ Sheen \/ FaceLines
    \/ GemBase \/ GemGlow \/ GemBody
    \/ EyesBase \/ EyeShape \/ EyeLayer \/ EyeCore \/ EyesDone
    \/ DetailsBase \/ IndicatorBase \/ IndicatorGlow \/ IndicatorCore \/ DetailsDone
    \/ EyeGlow \/ Enhance \/ Convert

MainStep ==
    \/ MainStart \/ MakeDirs \/ RenderMaster \/ Resize \/ Save \/ LoopDone
    \/ ContentsJson

Next == RenderStep \/ MainStep \/ Raise

Spec == Init /\ [][Next]_vars

\* The script runs on while it can; an exception is never bound to happen.
FairSpec == Spec /\ WF_vars(RenderStep \/ MainStep)

\* generate_icon called twice with one size, from any generator state.
RenderSizes == (1..MaxSize) \cup {255, 256, MasterSize \div 2, MasterSize}

InitRender ==
    /\ pc = "generate_icon" /\ ret = "caller" /\ grad = None
    /\ size \in RenderSizes
    /\ rng \in RngStates
    /\ rngAt = <<rng>>
    /\ Idle

NextRender == RenderStep \/ CallAgain

SpecRender == InitRender /\ [][NextRender]_vars

\* create_radial_gradient called once.
InitGradient ==
    /\ pc = "gradient" /\ ret = "none"
    /\ size \in 1..MaxGradSize
    /\ rng = RngSeed
    /\ rngAt = <<>>
    /\ grad \in [center : (0..MaxGradSize) \X (0..MaxGradSize),
                 inner : GradColors, outer : GradColors,
                 radius : 0..MaxRadius]
    /\ Idle

NextGradient == GradPixel \/ GradDone


\* Every drawing routine and create_radial_gradient, each from any of its inputs.
SpecDraw == (InitRender \/ InitGradient) /\ [][NextRender \/ NextGradient]_vars

(***************************************************************************)
(* Properties.                                                             *)
(***************************************************************************)
Has(ev) == ev \in Range(events)
Count(ev) == Cardinality({k \in 1..Len(events) : events[k] = ev})

\* The position of the first occurrence of ev in events, 0 if there is none.
Pos(ev) == IndexOf(events, ev)

Before(a, b) == Has(a) /\ Has(b) /\ Pos(a) < Pos(b)

\* The steps on the master canvas, in the order of the pipeline.
DrawSteps == <<"background", "face", "gem", "eyes", "details", "glow", "enhance">>

Filenames == {sizes[k].filename : k \in 1..Len(sizes)}

Complete(f) == f \in DOMAIN files /\ files[f] # Partial

\* C1: in one invocation of main the steps on the master canvas run in the
\* order background, face, gem, eyes, details, glow, contrast/sharpen, each
\* ending before the next begins; all of them end before any downscale or
\* save; a file's downscale precedes its save; and the manifest is emitted
\* only after every icon file has been saved.
PipelineOrder ==
    /\ \A k \in 1..(Len(DrawSteps) - 1) :
          Has(<<"begin", DrawSteps[k + 1]>>) =>
              /\ Before(<<"begin", DrawSteps[k]>>, <<"end", DrawSteps[k]>>)
              /\ Before(<<"end", DrawSteps[k]>>, <<"begin", DrawSteps[k + 1]>>)
    /\ \A n \in 1..Len(events) :
          events[n][1] \in {"resize", "save"} =>
              \A k \in 1..Len(DrawSteps) :
                  Has(<<"end", DrawSteps[k]>>) /\ Pos(<<"end", DrawSteps[k]>>) < n
    /\ \A f \in Filenames :
          /\ Has(<<"resize", f>>) /\ Has(<<"save", f>>) =>
                Pos(<<"resize", f>>) < Pos(<<"save", f>>)
          /\ Has(<<"save", f>>) /\ SizeOf(f) # 1024 => Has(<<"resize", f>>)
    /\ Has(<<"manifest", "Contents.json">>) =>
          \A f \in Filenames : Before(<<"save", f>>, <<"manifest", "Contents.json">>)

PipelineOrderWitness ==
    /\ pc = "done"
    /\ Has(<<"manifest", "Contents.json">>)
    /\ Has(<<"resize", F40>>)
    /\ Has(<<"end", "enhance">>)

\* C2: every file written under a name of the size table is size x size
\* pixels for the size the table pairs with the name, and the number N in
\* the name AppIcon-N.png is that size.
FilesMatchSizes ==
    \A f \in DOMAIN files :
        Complete(f) =>
            /\ files[f].w = SizeOf(f)
            /\ files[f].h = SizeOf(f)
            /\ NameNumber(f) = SizeOf(f)
            /\ files[f].resized = (SizeOf(f) # 1024)

FilesMatchSizesWitness ==
    /\ \A f \in Filenames : Complete(f)
    /\ files[F1024].resized = FALSE
    /\ files[F167].w = 167

\* C3: for every entry of the written manifest, point size times scale
\* factor equals the pixel size the size table gives for the entry's file.
ManifestDescribesSizes ==
    manifest.state = "written" =>
        \A k \in 1..Len(manifest.images) :
            LET e == manifest.images[k]
            IN  PointTenths(e.size) * ScaleFactor(e.scale) = 10 * SizeOf(e.filename)

\* C4: every colour and alpha component passed to a drawing call or to
\* putpixel is an integer in 0..255.
ColoursInRange ==
    \A k \in 1..Len(log) : \A c \in 1..Len(log[k][3]) : log[k][3][c] \in 0..255

ColoursInRangeWitness ==
    /\ pc = "returned"
    /\ grad # None
    /\ grad.inner = <<0, 0, 0, 0>> /\ grad.outer = <<255, 255, 255, 255>>
    /\ \E k \in 1..Len(log) : log[k][1] = "putpixel" /\ log[k][3][1] \in 1..254

\* C5: a run of main ends (finished or at an exception); when it finishes,
\* generate_icon was called once, each of the 10 files was saved once and the
\* manifest written once; and no step is ever begun a second time.
StepEvents == {"call", "begin", "resize", "save", "manifest"}

OnceOnly ==
    /\ \A a, b \in 1..Len(events) :
          (a # b /\ events[a][1] \in StepEvents) => events[a] # events[b]
    /\ pc = "done" =>
          /\ Count(<<"call", "generate_icon">>) = 1
          /\ Cardinality(Filenames) = 10
          /\ \A f \in Filenames : Count(<<"save", f>>) = 1 /\ Complete(f)
          /\ Count(<<"manifest", "Contents.json">>) = 1
          /\ manifest.state = "written"

RunsOnce == []OnceOnly /\ <>(pc \in {"done", "raised"})

RunsOnceWitness ==
    /\ pc = "done"
    /\ events[Len(events)] = <<"manifest", "Contents.json">>
    /\ Count(<<"call", "generate_icon">>) = 1

\* C6: two calls of generate_icon with the same size make the same sequence
\* of drawing calls, whatever state the global generator was in before each.
Deterministic == (pc = "returned" /\ log1 # <<>>) => log = log1

DeterministicWitness ==
    /\ pc = "returned" /\ log1 # <<>>
    /\ Detailed(size)
    /\ Len(rngAt) = 2 /\ rngAt[1] # rngAt[2]
    /\ \E k \in 1..Len(log) : log[k][3] = <<0, 100, 40, 150>>

\* C7: after an exception nothing more happens, and the step that raises
\* leaves every file saved before as it is, saves no further file, writes
\* no manifest and runs no other step.
NoRecoveryStep ==
    /\ pc # "raised"
    /\ pc' = "raised" =>
          /\ \A f \in DOMAIN files : f \in DOMAIN files' /\ files'[f] = files[f]
          /\ \A f \in DOMAIN files' : Complete(f)' => Complete(f)
          /\ manifest'.state # "written"
          /\ events' = Append(events, <<"raise", pc>>)

NoRecovery == [][NoRecoveryStep]_vars

NoRecoveryWitness ==
    /\ pc = "raised"
    /\ events[Len(events)] = <<"raise", "save">>
    /\ Complete(F1024) /\ Complete(F180)
    /\ F120 \in DOMAIN files /\ ~Complete(F120)

\* C8: after a completed run the file names of the manifest's entries are
\* exactly the names of the files written, which are the names returned by
\* generate_all_sizes.
ManifestAgrees ==
    pc = "done" =>
        /\ {manifest.images[k].filename : k \in 1..Len(manifest.images)} = DOMAIN files
        /\ \A f \in DOMAIN files : Complete(f)
        /\ Range(returned) = DOMAIN files

ManifestAgreesWitness ==
    /\ pc = "done"
    /\ manifest.state = "written"
    /\ Cardinality(DOMAIN files) = 10

\* C9: generate_icon is called once, with size 1024; every file written is
\* that master or a resize of it; the two steps guarded by size >= 256 have
\* been applied to it and the smaller-size path is never taken.
RenderPcs ==
    {"generate_icon", "vignette", "circuit", "traces", "nodes", "face", "sheen",
     "gem", "gem_glow", "eyes", "eye", "eye_layer", "details", "indicator",
     "indicator_glow", "glow", "enhance", "convert"}

OneMaster ==
    /\ pc \in RenderPcs => size = 1024 /\ Detailed(size)
    /\ Count(<<"call", "generate_icon">>) <= 1
    /\ master # None =>
          /\ master.w = 1024 /\ master.h = 1024
          /\ master.circuit /\ master.enhanced
    /\ \A f \in DOMAIN files :
          Complete(f) =>
              /\ files[f].circuit /\ files[f].enhanced
              /\ files[f] = (IF SizeOf(f) = 1024 THEN master ELSE ResizeTo(master, SizeOf(f)))

OneMasterWitness ==
    /\ pc = "done"
    /\ Complete(F40) /\ files[F40].resized /\ files[F40].circuit
    /\ Complete(F1024) /\ files[F1024] = master

\* C10: the eye centres of add_eye_glow are those of draw_luminous_eyes;
\* the two eye centres are mirror images about x = size // 2; the face_top
\* of draw_forehead_gem is the face_top of draw_metallic_face, so the gem is
\* int(size * 0.16) below the crown of the face polygon.
LayoutAgrees ==
    /\ "eyes" \in DOMAIN lay =>
          /\ lay["eyes"].eye_xs[1] + lay["eyes"].eye_xs[2] = 2 * (size \div 2)
          /\ lay["eyes"].eye_xs[1] <= lay["eyes"].eye_xs[2]
    /\ {"eyes", "glow"} \subseteq DOMAIN lay =>
          /\ lay["glow"].eye_xs = lay["eyes"].eye_xs
          /\ lay["glow"].eye_y = lay["eyes"].eye_y
    /\ {"face", "gem"} \subseteq DOMAIN lay =>
          /\ lay["gem"].face_top = lay["face"].face_top
          /\ lay["gem"].cx = lay["face"].face_points[1][1]
          /\ lay["gem"].gem_y = lay["face"].face_points[1][2] + IntMul(size, 16, 100)

LayoutAgreesWitness ==
    /\ pc = "enhance"
    /\ size = MaxSize
    /\ {"face", "gem", "eyes", "glow"} \subseteq DOMAIN lay
    /\ lay["eyes"].eye_xs[1] < lay["eyes"].eye_xs[2]

====
